---- MODULE Spec2Model ----
(***************************************************************************)
(* A model of crates/evals/src/eval.rs: the CodeSearchNet dataset builder, *)
(* the repository fetch phase and the coverage scoring of the evaluation   *)
(* run.  Each part of the program has its own variables and its own        *)
(* specification; a specification leaves the other parts' variables alone. *)
(***************************************************************************)
EXTENDS Integers, Sequences, FiniteSets, TLC

VARIABLES
    \* run_evaluation, one query (eval.rs 335-379)
    expected_results, results, exp_ix, project_covered_result_count,
    query_results, score_pc,
    \* fetch_code_search_net_resources (eval.rs 179-217), and a second execution
    \* of it that is fed the same rows in another order
    evaluations_by_repo, first_seen, n_rows, evaluations, build_pc,
    evaluations_by_repo_b, pending_b, last_score,
    \* fetch_eval_repo applied to the repository cache, run after run (eval.rs 445-534)
    disk, last_call, last_outcome, n_calls,
    \* fetch_eval_repos (eval.rs 406-443)
    evaluations_f, faults, fetch_pc, chunk_start, workers, done_count, handed,
    \* run_evaluation (eval.rs 286-388) and wait_for_indexing_complete (390-404)
    evaluations_r, repos, proj_ix, query_ix, eval_pc, covered_result_count,
    total_result_count, outcomes, calls, index_handle, subscribed, tx, rx,
    n_sends, n_events, n_idle, search_pending

scoreVars == <<expected_results, results, exp_ix, project_covered_result_count,
               query_results, score_pc>>
buildVars == <<evaluations_by_repo, first_seen, n_rows, evaluations, build_pc,
               evaluations_by_repo_b, pending_b, last_score>>
syncVars  == <<disk, last_call, last_outcome, n_calls>>
fetchVars == <<evaluations_f, faults, fetch_pc, chunk_start, workers, done_count, handed>>
evalVars == <<evaluations_r, repos, proj_ix, query_ix, eval_pc, covered_result_count,
              total_result_count, outcomes, calls, index_handle, subscribed, tx, rx,
              n_sends, n_events, n_idle, search_pending>>
vars == <<scoreVars, buildVars, syncVars, fetchVars, evalVars>>

(***************************************************************************)
(* Bounds.                                                                 *)
(***************************************************************************)
MaxExpected == 2
MaxActual == 2
MaxRows == 3
MaxCalls == 3
MaxProjects == 2
MaxEvents == 3

SeqsUpTo(S, n) == UNION {[1..k -> S] : k \in 0..n}

\* Option::None and Option::Some(v).
None == "None"
Some(v) == <<v>>

\* What a step of one part leaves alone: the variables of the other parts.
ScoreFrame == UNCHANGED <<buildVars, syncVars, fetchVars, evalVars>>
BuildFrame == UNCHANGED <<scoreVars, syncVars, fetchVars, evalVars>>
SyncFrame == UNCHANGED <<scoreVars, buildVars, fetchVars, evalVars>>
FetchFrame == UNCHANGED <<scoreVars, buildVars, syncVars, evalVars>>
EvalFrame == UNCHANGED <<scoreVars, buildVars, syncVars, fetchVars>>

(***************************************************************************)
(* Part 1.  Coverage scoring of one query (run_evaluation, 335-379).       *)
(***************************************************************************)
Rng(s, e) == [start |-> s, end |-> e]

Files == {"src/x.go", "src/y.go"}

\* Line ranges of the expected results: Range<u32> values decoded from permalinks.
ExpectedRanges == {Rng(8, 12), Rng(3, 9), Rng(21, 25), Rng(5, 20), Rng(12, 20)}

\* Line ranges the search engine returns (row_range).
ActualRanges == {Rng(5, 20), Rng(8, 12)}

ExpectedUniverse == {[file |-> f, lines |-> r] : f \in Files, r \in ExpectedRanges}
ActualUniverse == {[file |-> f, lines |-> r] : f \in Files, r \in ActualRanges}

\* Range<u32>::contains: start <= x && x < end.
RangeContains(r, x) == r.start <= x /\ x < r.end

\* The closure of results.iter().any(..), 351-355.
WasCoveredIgnoringPath(expected_result, rs) ==
    \E j \in 1..Len(rs) :
        /\ RangeContains(rs[j].lines, expected_result.lines.start)
        /\ RangeContains(rs[j].lines, expected_result.lines.end)
WasCovered(expected_result, rs) ==
    \E j \in 1..Len(rs) :
        /\ rs[j].file = expected_result.file
        /\ RangeContains(rs[j].lines, expected_result.lines.start)
        /\ RangeContains(rs[j].lines, expected_result.lines.end)

NoOutcome == [emitted |-> FALSE]

ScoreInit ==
    /\ expected_results \in SeqsUpTo(ExpectedUniverse, MaxExpected)
    /\ results = <<>>
    /\ exp_ix = 1
    /\ project_covered_result_count = 0
    /\ query_results = NoOutcome
    /\ score_pc = "search"

ScoreIdle ==
    /\ expected_results = <<>>
    /\ results = <<>>
    /\ exp_ix = 1
    /\ project_covered_result_count = 0
    /\ query_results = NoOutcome
    /\ score_pc = "search"

\* project_index.search(..) and load_results, 336-347: the engine's answer.
Search ==
    /\ score_pc = "search"
    /\ results' \in SeqsUpTo(ActualUniverse, MaxActual)
    /\ project_covered_result_count' = 0
    /\ exp_ix' = 1
    /\ score_pc' = "score"
    /\ UNCHANGED <<expected_results, query_results>>
    /\ ScoreFrame

\* One iteration of the loop over query.expected_results, 350-359.
ScoreExpected ==
    /\ score_pc = "score"
    /\ exp_ix <= Len(expected_results)
    /\ project_covered_result_count' =
          IF WasCovered(expected_results[exp_ix], results)
          THEN project_covered_result_count + 1
          ELSE project_covered_result_count
    /\ exp_ix' = exp_ix + 1
    /\ UNCHANGED <<expected_results, results, query_results, score_pc>>
    /\ ScoreFrame

\* The EvaluationQueryOutcome built and printed at 361-378.
EmitOutcome ==
    /\ score_pc = "score"
    /\ exp_ix > Len(expected_results)
    /\ query_results' =
          [emitted |-> TRUE,
           total_result_count |-> Len(expected_results),
           covered_result_count |-> project_covered_result_count,
           expected_results |-> expected_results,
           actual_results |-> results]
    /\ score_pc' = "emitted"
    /\ UNCHANGED <<expected_results, results, exp_ix, project_covered_result_count>>
    /\ ScoreFrame

ScoreNext == Search \/ ScoreExpected \/ EmitOutcome

(***************************************************************************)
(* Part 2.  The dataset builder (fetch_code_search_net_resources, 179-217).*)
(***************************************************************************)
\* The strings of the model in byte order, the order Rust's Ord for &str gives.
Alphabetical == <<"a/x", "b/y", "s1", "s2">>
Rank(s) == CHOOSE i \in 1..Len(Alphabetical) : Alphabetical[i] = s
StrLt(a, b) == Rank(a) < Rank(b)

\* (repo_name, sha) keys: one repository at two revisions, and another repository.
Keys == {<<"a/x", "s1">>, <<"a/x", "s2">>, <<"b/y", "s1">>}
Queries == {"parse json", "read file"}
RowResults == {[file |-> "src/x.go", lines |-> Rng(1, 5)],
               [file |-> "src/x.go", lines |-> Rng(7, 8)]}

\* The decoded tuples (repo_name, sha, query, file_path, line_range) of line 176.
Rows == {[repo |-> k[1], sha |-> k[2], query |-> q, file |-> r.file, lines |-> r.lines] :
            k \in Keys, q \in Queries, r \in RowResults}

\* A text is a sequence of pieces: each piece is a separator of the format
\* (",", "#", "-", "/", "/blob/", the URL prefix, the "L" of a line anchor) or a run of
\* characters holding none of them that matters to the parse.
RECURSIVE Join(_)
Join(text) == IF text = <<>> THEN "" ELSE Head(text) \o Join(Tail(text))

\* str::split_once(delimiter): the text before and after the first delimiter.
SplitOnceAt(text, delimiter) ==
    IF \E i \in 1..Len(text) : text[i] = delimiter
    THEN LET i == CHOOSE k \in 1..Len(text) :
                    /\ text[k] = delimiter
                    /\ \A j \in 1..(k - 1) : text[j] # delimiter
         IN <<SubSeq(text, 1, i - 1), SubSeq(text, i + 1, Len(text))>>
    ELSE None

\* str::strip_prefix(prefix).
StripPrefix(text, prefix) ==
    IF Len(text) > 0 /\ text[1] = prefix THEN Tail(text) ELSE None

\* line.split(','), 156: the fields between the commas.
RECURSIVE SplitFields(_)
SplitFields(text) ==
    LET s == SplitOnceAt(text, ",") IN
    IF s = None THEN <<text>> ELSE <<s[1]>> \o SplitFields(s[2])

\* str::parse::<u32>() on the line numbers the annotations hold.
ParseU32(text) ==
    LET s == Join(text) IN
    CASE s = "1" -> Some(1)
      [] s = "5" -> Some(5)
      [] s = "7" -> Some(7)
      [] OTHER -> None

\* The line range decoded from the URL fragment, 170-175.
ParseLineRange(hash) ==
    LET s == SplitOnceAt(hash, "-") IN
    IF s # None
    THEN LET a == StripPrefix(s[1], "L")
             b == StripPrefix(s[2], "L")
         IN IF a = None THEN None
            ELSE IF ParseU32(a) = None THEN None
            ELSE IF b = None THEN None
            ELSE IF ParseU32(b) = None THEN None
            ELSE Some(Rng(ParseU32(a)[1], ParseU32(b)[1]))
    ELSE LET a == StripPrefix(hash, "L")
         IN IF a = None THEN None
            ELSE IF ParseU32(a) = None THEN None
            ELSE Some(Rng(ParseU32(a)[1], ParseU32(a)[1] + 1))

\* The permalink decoded into (repo_name, sha, file_path, line_range), 166-175.
ParseUrl(github_url) ==
    LET url_path == StripPrefix(github_url, "https://github.com/") IN
    IF url_path = None THEN None
    ELSE LET at_hash == SplitOnceAt(url_path, "#") IN
    IF at_hash = None THEN None
    ELSE LET at_blob == SplitOnceAt(at_hash[1], "/blob/") IN
    IF at_blob = None THEN None
    ELSE LET at_slash == SplitOnceAt(at_blob[2], "/") IN
    IF at_slash = None THEN None
    ELSE LET line_range == ParseLineRange(at_hash[2]) IN
    IF line_range = None THEN None
    ELSE Some([repo |-> Join(at_blob[1]), sha |-> Join(at_slash[1]),
               file |-> Join(at_slash[2]), lines |-> line_range[1]])

\* The closure of filter_map, 155-177: Some(decoded tuple) of a line, or None.
ParseLineKeepingZeroScores(line) ==
    LET values == SplitFields(line) IN
    IF Len(values) < 4 THEN None
    ELSE LET url == ParseUrl(values[3]) IN
         IF url = None THEN None
         ELSE Some([repo |-> url[1].repo, sha |-> url[1].sha, query |-> Join(values[2]),
                    file |-> url[1].file, lines |-> url[1].lines])
ParseLine(line) ==
    LET values == SplitFields(line) IN
    IF Len(values) < 4 THEN None
    ELSE IF Join(values[4]) = "0" THEN None
    ELSE LET url == ParseUrl(values[3]) IN
         IF url = None THEN None
         ELSE Some([repo |-> url[1].repo, sha |-> url[1].sha, query |-> Join(values[2]),
                    file |-> url[1].file, lines |-> url[1].lines])

\* The score field of a line ("missing" when the line has fewer than four fields).
ScoreField(line) ==
    LET values == SplitFields(line) IN
    IF Len(values) < 4 THEN "missing" ELSE Join(values[4])

\* The text of the URL fragment for a line range.
Anchor(lines) ==
    CASE lines = Rng(1, 5) -> <<"L", "1", "-", "L", "5">>
      [] lines = Rng(7, 8) -> <<"L", "7">>

\* A line of annotations.csv: language,query,permalink,score.
AnnotationLine(row, score) ==
    <<"go", ",", row.query, ",",
      "https://github.com/", row.repo, "/blob/", row.sha, "/", row.file, "#">>
    \o Anchor(row.lines) \o <<",", score>>

\* The lines of annotations.csv: every row with a relevance of 3, some rows also with
\* a relevance of 0, a line with an anchor that is no line number, a line that is no
\* permalink, and a line of three fields.
AnnotationLines ==
    {AnnotationLine(row, "3") : row \in Rows}
    \cup {AnnotationLine(row, "0") : row \in {r \in Rows : r.lines = Rng(1, 5) /\ r.query = "parse json"}}
    \cup {<<"go", ",", "parse json", ",",
            "https://github.com/", "a/x", "/blob/", "s1", "/", "src/x.go", "#", "L", "x", ",", "3">>,
          <<"go", ",", "read file", ",", "https://example.com/a/x", ",", "3">>,
          <<"go", ",", "read file", ",", "https://github.com/">>}

\* Ord for the tuple (&str, &str): lexicographic.
KeyLt(k1, k2) == StrLt(k1[1], k2[1]) \/ (k1[1] = k2[1] /\ StrLt(k1[2], k2[2]))

\* entry((repo_name, sha)).or_insert_with(..), 182-188.
OrInsertProject(m, row) ==
    LET key == <<row.repo, row.sha>> IN
    IF key \in DOMAIN m THEN m
    ELSE [k \in DOMAIN m \cup {key} |->
            IF k = key THEN [repo |-> row.repo, sha |-> row.sha, queries |-> <<>>]
            ELSE m[k]]

\* queries.iter().position(|entry| entry.query == query), 190-193: 0 stands for None.
QueryPosition(queries, query) ==
    IF \E i \in 1..Len(queries) : queries[i].query = query
    THEN CHOOSE i \in 1..Len(queries) :
            /\ queries[i].query = query
            /\ \A j \in 1..(i - 1) : queries[j].query # query
    ELSE 0

\* if !results.contains(&result) { results.push(result) }, 206-208.
PushResultAlways(rs, result) == Append(rs, result)
PushResultDedupByFile(rs, result) ==
    IF \E i \in 1..Len(rs) : rs[i].file = result.file THEN rs ELSE Append(rs, result)
PushResult(rs, result) ==
    IF \E i \in 1..Len(rs) : rs[i] = result THEN rs ELSE Append(rs, result)

\* The body of the loop over the rows, 181-209.
FoldRow(m, row) ==
    LET key == <<row.repo, row.sha>>
        m1 == OrInsertProject(m, row)
        evaluation_project == m1[key]
        found == QueryPosition(evaluation_project.queries, row.query)
        queries1 == IF found = 0
                    THEN Append(evaluation_project.queries,
                                [query |-> row.query, expected_results |-> <<>>])
                    ELSE evaluation_project.queries
        ix == IF found = 0 THEN Len(queries1) ELSE found
        result == [file |-> row.file, lines |-> row.lines]
        queries2 == [queries1 EXCEPT
                        ![ix].expected_results = PushResult(@, result)]
    IN [m1 EXCEPT ![key].queries = queries2]

\* The keys of a BTreeMap in ascending order.
RECURSIVE SortedKeys(_)
SortedKeys(S) ==
    IF S = {} THEN <<>>
    ELSE LET least == CHOOSE k \in S : \A o \in S \ {k} : KeyLt(k, o)
         IN <<least>> \o SortedKeys(S \ {least})

\* evaluations_by_repo.into_values().collect::<Vec<_>>(), 211.
IntoValuesInsertionOrder(m) == [i \in 1..Len(first_seen) |-> m[first_seen[i]]]
IntoValues(m) ==
    LET ks == SortedKeys(DOMAIN m) IN [i \in 1..Len(ks) |-> m[ks[i]]]

EmptyMap == [k \in {} |-> 0]
NoRows == [r \in Rows |-> 0]

BuildInit ==
    /\ evaluations_by_repo = EmptyMap
    /\ first_seen = <<>>
    /\ n_rows = 0
    /\ evaluations = <<>>
    /\ build_pc = "folding"
    /\ evaluations_by_repo_b = EmptyMap
    /\ pending_b = NoRows
    /\ last_score = "none"

BuildIdle ==
    /\ evaluations_by_repo = EmptyMap
    /\ first_seen = <<>>
    /\ n_rows = 0
    /\ evaluations = <<>>
    /\ build_pc = "folding"
    /\ evaluations_by_repo_b = EmptyMap
    /\ pending_b = NoRows
    /\ last_score = "none"

\* The next line of annotations.csv decodes to a row, and the loop consumes the row,
\* 155-209.  n_rows counts the lines read; last_score is the score field of the last.
ConsumeRow ==
    /\ build_pc = "folding"
    /\ n_rows < MaxRows
    /\ \E line \in AnnotationLines :
        /\ ParseLine(line) # None
        /\ LET row == ParseLine(line)[1] IN
            /\ evaluations_by_repo' = FoldRow(evaluations_by_repo, row)
            /\ first_seen' = IF <<row.repo, row.sha>> \in DOMAIN evaluations_by_repo
                             THEN first_seen
                             ELSE Append(first_seen, <<row.repo, row.sha>>)
            /\ pending_b' = [pending_b EXCEPT ![row] = @ + 1]
        /\ last_score' = ScoreField(line)
    /\ n_rows' = n_rows + 1
    /\ UNCHANGED <<evaluations, build_pc, evaluations_by_repo_b>>
    /\ BuildFrame

\* The next line of annotations.csv is one the closure of filter_map answers None
\* for, 155-177: no row reaches the loop.
FilterLine ==
    /\ build_pc = "folding"
    /\ n_rows < MaxRows
    /\ \E line \in AnnotationLines :
        /\ ParseLine(line) = None
        /\ last_score' = ScoreField(line)
    /\ n_rows' = n_rows + 1
    /\ UNCHANGED <<evaluations_by_repo, first_seen, evaluations, build_pc,
                   evaluations_by_repo_b, pending_b>>
    /\ BuildFrame

\* The other execution consumes, in an order of its own, a row the first has consumed.
ConsumeRowReordered ==
    /\ build_pc \in {"folding", "written"}
    /\ \E row \in Rows :
        /\ pending_b[row] > 0
        /\ evaluations_by_repo_b' = FoldRow(evaluations_by_repo_b, row)
        /\ pending_b' = [pending_b EXCEPT ![row] = @ - 1]
    /\ UNCHANGED <<evaluations_by_repo, first_seen, n_rows, evaluations, build_pc, last_score>>
    /\ BuildFrame

\* The end of the stream: the map is flattened and written, 211-217.
WriteEvaluations ==
    /\ build_pc = "folding"
    /\ evaluations' = IntoValues(evaluations_by_repo)
    /\ build_pc' = "written"
    /\ UNCHANGED <<evaluations_by_repo, first_seen, n_rows, evaluations_by_repo_b, pending_b,
                   last_score>>
    /\ BuildFrame

BuildNext == ConsumeRow \/ FilterLine \/ ConsumeRowReordered \/ WriteEvaluations

(***************************************************************************)
(* Part 3.  fetch_eval_repo (445-534) applied to the repository cache, one  *)
(* call after another, over any number of fetch runs, and the skip test of *)
(* run_evaluation (296-300).                                               *)
(***************************************************************************)
\* The components of a repo identifier between its '/' separators.
PathComponents(repo) ==
    CASE repo = "a/x" -> <<"a", "x">>
      [] repo = "b/y" -> <<"b", "y">>
      [] OTHER -> <<repo>>

\* repo.split_once('/'), 451: (owner, repo_name), or None without a '/'.
SplitOnce(repo) ==
    LET c == PathComponents(repo) IN
    IF Len(c) < 2 THEN None ELSE <<c[1], Tail(c)>>

\* The projects of evaluations.json the calls are made for: one repository at two
\* revisions, another repository, and a repo identifier without a '/'.
SyncProjects == {[repo |-> "a/x", sha |-> "s1"], [repo |-> "a/x", sha |-> "s2"],
                 [repo |-> "b/y", sha |-> "s1"], [repo |-> "noslash", sha |-> "s1"]}

\* Directories below EVAL_REPOS_DIR, as paths relative to it.
Dirs == {PathComponents(p.repo) : p \in SyncProjects}

\* What git init leaves in .git/HEAD.
InitialHead == "ref: refs/heads/master"

\* A directory: whether it exists, whether it holds SKIP_EVAL_PATH, and the trimmed
\* content of .git/HEAD ("absent": there is no .git).
AbsentDir == [exists |-> FALSE, skip |-> FALSE, head |-> "absent"]

\* What the outside world answers during one call: the HEAD request (a status class,
\* or the request failing) and each git subprocess (its exit status, or not starting).
ProbeAnswers == {"success", "redirection", "client_error", "request_failed"}
CommandAnswers == {"ok", "fail", "spawn_failed"}
AllExtOutcomes == [probe : ProbeAnswers, init : CommandAnswers, remote : CommandAnswers,
                   fetch : CommandAnswers, checkout : CommandAnswers]

\* A call reads the answers in order and stops at the first one that ends it, so an
\* answer after that one is never read: it is fixed to "ok" here.
ExtOutcomes ==
    {e \in AllExtOutcomes :
        /\ e.probe \notin {"success", "redirection"} => e.init = "ok"
        /\ e.init # "ok" => e.remote = "ok"
        /\ e.remote = "spawn_failed" => e.fetch = "ok"
        /\ e.fetch # "ok" => e.checkout = "ok"}

Ret(ds, probe, cmds, result) ==
    [dir |-> ds, probe |-> probe, cmds |-> cmds, result |-> result]

\* git checkout <sha>, 520-533.
GitCheckoutMovesHeadOnFailure(ds, sha, ext, probe, cmds) ==
    LET issued == Append(cmds, <<"checkout", ext.checkout>>) IN
    IF ext.checkout = "spawn_failed" THEN Ret(ds, probe, issued, "panic")
    ELSE IF ext.checkout = "fail"
         THEN Ret([ds EXCEPT !.head = sha], probe, issued, "checkout_failed")
    ELSE Ret([ds EXCEPT !.head = sha], probe, issued, "synced")
GitCheckout(ds, sha, ext, probe, cmds) ==
    LET issued == Append(cmds, <<"checkout", ext.checkout>>) IN
    IF ext.checkout = "spawn_failed" THEN Ret(ds, probe, issued, "panic")
    ELSE IF ext.checkout = "fail" THEN Ret(ds, probe, issued, "checkout_failed")
    ELSE Ret([ds EXCEPT !.head = sha], probe, issued, "synced")

\* git fetch --depth 1 origin <sha>, 505-519.
GitFetch(ds, sha, ext, probe, cmds) ==
    LET issued == Append(cmds, <<"fetch", ext.fetch>>) IN
    IF ext.fetch = "spawn_failed" THEN Ret(ds, probe, issued, "panic")
    ELSE IF ext.fetch = "fail" THEN Ret(ds, probe, issued, "fetch_failed")
    ELSE GitCheckout(ds, sha, ext, probe, issued)

\* git remote add -f origin <url>, 498-504: its exit status is not looked at.
GitRemoteAdd(ds, sha, ext, probe, cmds) ==
    LET issued == Append(cmds, <<"remote", ext.remote>>) IN
    IF ext.remote = "spawn_failed" THEN Ret(ds, probe, issued, "panic")
    ELSE GitFetch(ds, sha, ext, probe, issued)

\* git init when there is no .git, 483-497.
GitInit(ds, sha, ext, probe) ==
    IF ds.head # "absent" THEN GitRemoteAdd(ds, sha, ext, probe, <<>>)
    ELSE LET issued == <<(<<"init", ext.init>>)>> IN
         IF ext.init = "spawn_failed" THEN Ret(ds, probe, issued, "panic")
         ELSE IF ext.init = "fail" THEN Ret(ds, probe, issued, "init_failed")
         ELSE GitRemoteAdd([ds EXCEPT !.head = InitialHead], sha, ext, probe, issued)

\* The HEAD request and the status test, 465-482.
ProbeNeverMarksSkip(ds, sha, ext) ==
    IF ext.probe = "request_failed" THEN Ret(ds, ext.probe, <<>>, "panic")
    ELSE IF ext.probe \notin {"success", "redirection"}
         THEN Ret(ds, ext.probe, <<>>, "gone")
    ELSE GitInit(ds, sha, ext, ext.probe)
Probe(ds, sha, ext) ==
    IF ext.probe = "request_failed" THEN Ret(ds, ext.probe, <<>>, "panic")
    ELSE IF ext.probe \notin {"success", "redirection"}
         THEN Ret([ds EXCEPT !.skip = TRUE], ext.probe, <<>>, "gone")
    ELSE GitInit(ds, sha, ext, ext.probe)

\* The tests before any request, 456-464.
PreChecksWithoutHeadTest(ds, sha, ext) ==
    IF ds.skip THEN Ret(ds, "none", <<>>, "skipped")
    ELSE Probe(ds, sha, ext)
PreChecks(ds, sha, ext) ==
    IF ds.skip THEN Ret(ds, "none", <<>>, "skipped")
    ELSE IF ds.head = sha THEN Ret(ds, "none", <<>>, "already")
    ELSE Probe(ds, sha, ext)

\* fetch_eval_repo, 445-534, on the state ds of its directory.
FetchEvalRepo(ds, repo, sha, ext) ==
    IF SplitOnce(repo) = None THEN Ret(ds, "none", <<>>, "no_slash")
    ELSE PreChecks([ds EXCEPT !.exists = TRUE], sha, ext)

\* repo_dir of fetch_eval_repo, 454: repos_dir.join(owner).join(repo_name).
FetchRepoDir(repo) == LET s == SplitOnce(repo) IN <<s[1]>> \o s[2]

\* repo_dir of run_evaluation, 296: repos_dir.join(&evaluation_project.repo).
EvalRepoDir(repo) == PathComponents(repo)

\* The skip test of run_evaluation, 297.
EvalSkipsOnlyAbsent(d, repo) == ~d[EvalRepoDir(repo)].exists
EvalSkips(d, repo) == ~d[EvalRepoDir(repo)].exists \/ d[EvalRepoDir(repo)].skip

NoCall == [kind |-> "none"]

SyncInit ==
    /\ disk = [d \in Dirs |-> AbsentDir]
    /\ last_call = NoCall
    /\ last_outcome = [p \in SyncProjects |-> "never"]
    /\ n_calls = 0

SyncIdle ==
    /\ disk = [d \in Dirs |-> AbsentDir]
    /\ last_call = NoCall
    /\ last_outcome = [p \in SyncProjects |-> "never"]
    /\ n_calls = 0

\* One call fetch_eval_repo(repo, sha, ..), 434, of some fetch run.  last_call records
\* what the call did (its request, its git commands, how it ended) and how the
\* project's previous call had ended.
FetchCall ==
    /\ n_calls < MaxCalls
    /\ \E p \in SyncProjects :
        LET none == SplitOnce(p.repo) = None
            ds == IF none THEN AbsentDir ELSE disk[FetchRepoDir(p.repo)]
        IN \E r \in {FetchEvalRepo(ds, p.repo, p.sha, ext) : ext \in ExtOutcomes} :
           /\ disk' = IF none THEN disk ELSE [disk EXCEPT ![FetchRepoDir(p.repo)] = r.dir]
           /\ last_call' = [kind |-> "fetch", project |-> p, probe |-> r.probe,
                            cmds |-> r.cmds, result |-> r.result,
                            previous |-> last_outcome[p]]
           /\ last_outcome' = [last_outcome EXCEPT ![p] = r.result]
    /\ n_calls' = n_calls + 1
    /\ SyncFrame

\* One project of the loop of run_evaluation, 290-380, of some evaluation run:
\* skipped at 297-300, or evaluated (its queries are searched and their outcomes printed).
EvalProject ==
    /\ n_calls < MaxCalls
    /\ \E p \in SyncProjects :
        last_call' = [kind |-> "eval", project |-> p,
                      result |-> IF EvalSkips(disk, p.repo) THEN "skipped" ELSE "evaluated"]
    /\ n_calls' = n_calls + 1
    /\ UNCHANGED <<disk, last_outcome>>
    /\ SyncFrame

SyncNext == FetchCall \/ EvalProject

(***************************************************************************)
(* Part 4.  The fetch phase (fetch_eval_repos, 406-443).                   *)
(***************************************************************************)
\* Lengths of the project list read from evaluations.json.
ProjectCounts == {0, 7, 8, 9, 16}

\* A project list of n entries in key order: entry i is repository i at "s1"; with
\* dup, the first two entries are repository 1 at "s1" and at "s2".
FetchDataset(n, dup) ==
    [i \in 1..n |->
        IF dup /\ i = 2 THEN [repo |-> 1, sha |-> "s2"] ELSE [repo |-> i, sha |-> "s1"]]

\* evaluations.len() / 8, the chunk size handed to chunks() at 423.
ChunkSize(len) == len \div 8

\* Every state a repository directory can be in.
DirStates == [exists : BOOLEAN, skip : BOOLEAN, head : {"absent", InitialHead, "s1", "s2"}]

\* The answers of an outside world in which every request gets a response and every
\* git process starts.
ReliableExtOutcomes ==
    {e \in ExtOutcomes :
        /\ e.probe # "request_failed"
        /\ \A c \in {e.init, e.remote, e.fetch, e.checkout} : c # "spawn_failed"}

\* How a call fetch_eval_repo(repo, sha, ..) can end, whatever its directory holds and
\* whatever the outside world answers.
FetchCallResults ==
    {FetchEvalRepo(ds, "a/x", sha, ext).result :
        ds \in DirStates, sha \in {"s1", "s2"}, ext \in ExtOutcomes}
ReliableCallResults ==
    {FetchEvalRepo(ds, "a/x", sha, ext).result :
        ds \in DirStates, sha \in {"s1", "s2"}, ext \in ReliableExtOutcomes}
CallResults == IF faults THEN FetchCallResults ELSE ReliableCallResults

FetchInit ==
    \* The run of 16 projects (chunks of two) is one in which nothing can panic.
    /\ \E n \in ProjectCounts, dup \in BOOLEAN :
        /\ dup => n \in 8..9
        /\ evaluations_f = FetchDataset(n, dup)
        /\ faults \in IF n > 9 THEN {FALSE} ELSE BOOLEAN
    /\ fetch_pc = "start"
    /\ chunk_start = 1
    /\ workers = <<>>
    /\ done_count = 0
    /\ handed = [i \in 1..Len(evaluations_f) |-> 0]

FetchIdle ==
    /\ evaluations_f = <<>>
    /\ faults = FALSE
    /\ fetch_pc = "start"
    /\ chunk_start = 1
    /\ workers = <<>>
    /\ done_count = 0
    /\ handed = <<>>

\* slice::chunks panics when the chunk size is 0, 423.
ChunksPanics ==
    /\ fetch_pc = "start"
    /\ ChunkSize(Len(evaluations_f)) = 0
    /\ fetch_pc' = "panicked"
    /\ UNCHANGED <<evaluations_f, faults, chunk_start, workers, done_count, handed>>
    /\ FetchFrame

\* One iteration of the loop over the chunks: a worker is spawned for the chunk, 423-438.
SpawnChunk ==
    /\ fetch_pc = "start"
    /\ ChunkSize(Len(evaluations_f)) > 0
    /\ chunk_start <= Len(evaluations_f)
    /\ LET size == ChunkSize(Len(evaluations_f))
           last == IF chunk_start + size - 1 <= Len(evaluations_f)
                   THEN chunk_start + size - 1
                   ELSE Len(evaluations_f)
       IN /\ workers' = Append(workers,
                [lo |-> chunk_start, hi |-> last, next |-> chunk_start, st |-> "idle"])
          /\ chunk_start' = chunk_start + size
    /\ UNCHANGED <<evaluations_f, faults, fetch_pc, done_count, handed>>
    /\ FetchFrame

\* The closure handed to scoped() returns and the spawned workers start running, 439.
RunScope ==
    /\ fetch_pc = "start"
    /\ ChunkSize(Len(evaluations_f)) > 0
    /\ chunk_start > Len(evaluations_f)
    /\ fetch_pc' = "running"
    /\ UNCHANGED <<evaluations_f, faults, chunk_start, workers, done_count, handed>>
    /\ FetchFrame

\* A worker takes the next project of its chunk and calls fetch_eval_repo, 427-434.
WorkerBegin(w) ==
    /\ fetch_pc = "running"
    /\ workers[w].st = "idle"
    /\ workers' = [workers EXCEPT ![w].st = "fetching"]
    /\ handed' = [handed EXCEPT ![workers[w].next] = @ + 1]
    /\ UNCHANGED <<evaluations_f, faults, fetch_pc, chunk_start, done_count>>
    /\ FetchFrame

\* fetch_eval_repo returns: done_count.fetch_add(1), and the loop goes on, 434-436.
WorkerReturn(w) ==
    /\ fetch_pc = "running"
    /\ workers[w].st = "fetching"
    /\ CallResults \ {"panic"} # {}
    /\ workers' = [workers EXCEPT
                      ![w].next = @ + 1,
                      ![w].st = IF workers[w].next + 1 > workers[w].hi
                                THEN "finished" ELSE "idle"]
    /\ done_count' = done_count + 1
    /\ UNCHANGED <<evaluations_f, faults, fetch_pc, chunk_start, handed>>
    /\ FetchFrame

\* fetch_eval_repo panics (an expect or unwrap of 465-524 fails) and the worker's task
\* dies with it; the other workers run on.
WorkerPanics(w) ==
    /\ fetch_pc = "running"
    /\ workers[w].st = "fetching"
    /\ "panic" \in CallResults
    /\ workers' = [workers EXCEPT ![w].st = "panicked"]
    /\ UNCHANGED <<evaluations_f, faults, fetch_pc, chunk_start, done_count, handed>>
    /\ FetchFrame

\* fetch_eval_repo panics and the panic ends the process (a build with panic = "abort",
\* or an executor whose threads cannot unwind): every worker stops where it is.
WorkerPanicAborts(w) ==
    /\ fetch_pc = "running"
    /\ workers[w].st = "fetching"
    /\ "panic" \in CallResults
    /\ workers' = [workers EXCEPT ![w].st = "panicked"]
    /\ fetch_pc' = "aborted"
    /\ UNCHANGED <<evaluations_f, faults, chunk_start, done_count, handed>>
    /\ FetchFrame

\* scoped() has awaited every worker, 440-442.
ScopeDone ==
    /\ fetch_pc = "running"
    /\ \A w \in 1..Len(workers) : workers[w].st = "finished"
    /\ fetch_pc' = "done"
    /\ UNCHANGED <<evaluations_f, faults, chunk_start, workers, done_count, handed>>
    /\ FetchFrame

\* scoped() awaits a worker whose task died: the await panics in turn, 440.
ScopeFails ==
    /\ fetch_pc = "running"
    /\ \A w \in 1..Len(workers) : workers[w].st \in {"finished", "panicked"}
    /\ \E w \in 1..Len(workers) : workers[w].st = "panicked"
    /\ fetch_pc' = "panicked"
    /\ UNCHANGED <<evaluations_f, faults, chunk_start, workers, done_count, handed>>
    /\ FetchFrame

FetchNext ==
    \/ ChunksPanics
    \/ SpawnChunk
    \/ RunScope
    \/ \E w \in 1..Len(workers) : WorkerBegin(w)
    \/ \E w \in 1..Len(workers) : WorkerReturn(w)
    \/ \E w \in 1..Len(workers) : WorkerPanics(w)
    \/ \E w \in 1..Len(workers) : WorkerPanicAborts(w)
    \/ ScopeDone
    \/ ScopeFails

(***************************************************************************)
(* Part 5.  The evaluation run (run_evaluation, 286-388) with the indexing *)
(* wait (wait_for_indexing_complete, 390-404).  The run is one task of the *)
(* foreground executor: a step of it is the code between two awaits.       *)
(***************************************************************************)
SEARCH_RESULT_LIMIT == 8

Expected(f, s, e) == [file |-> f, lines |-> Rng(s, e)]
Query(q, rs) == [query |-> q, expected_results |-> rs]

\* Projects of evaluations.json: two repositories, one of them at two revisions.
EvalProjects ==
    {[repo |-> "a/x", sha |-> "s1",
      queries |-> <<Query("parse json", <<Expected("src/x.go", 8, 12), Expected("src/x.go", 3, 9)>>),
                    Query("read file", <<Expected("src/y.go", 8, 12)>>)>>],
     [repo |-> "a/x", sha |-> "s2",
      queries |-> <<Query("read file", <<Expected("src/x.go", 12, 20)>>)>>],
     [repo |-> "b/y", sha |-> "s1",
      queries |-> <<Query("parse json", <<Expected("src/x.go", 8, 12)>>)>>]}

\* The project lists: every project at most once.
EvalDatasets ==
    {ps \in SeqsUpTo(EvalProjects, MaxProjects) :
        \A i, j \in 1..Len(ps) : i # j => ps[i] # ps[j]}

\* What the repository cache can hold for a project's directory.
CacheStates ==
    {d \in DirStates : (d.skip => d.exists) /\ (d.head # "absent" => d.exists)
                       /\ d.head \in {"absent", "s1"}}

\* The answers of the search engine to one query (path and row range of each result,
\* as load_results gives them): at most SEARCH_RESULT_LIMIT results.
SearchAnswers ==
    {a \in {<<>>,
            <<Expected("src/x.go", 5, 20)>>,
            <<Expected("src/y.go", 5, 20), Expected("src/x.go", 8, 12)>>} :
        Len(a) <= SEARCH_RESULT_LIMIT}

\* The values of semantic_index::Status.
Statuses == {"Idle", "Loading", "Scanning"}

\* The awaits of the run: between two of them nothing else runs on the executor.
RunnerSuspended(pc) == pc \in {"worktree", "scanning", "waiting", "searching", "loading"}

\* The loop over query.expected_results, 349-359.
RECURSIVE CoveredCount(_, _)
CoveredCount(expected, rs) ==
    IF expected = <<>> THEN 0
    ELSE (IF WasCovered(Head(expected), rs) THEN 1 ELSE 0) + CoveredCount(Tail(expected), rs)

\* The EvaluationQueryOutcome of a query, 361-373.
QueryOutcomeCountingActual(query, rs) ==
    [query |-> query.query,
     total_result_count |-> Len(rs),
     covered_result_count |-> CoveredCount(query.expected_results, rs),
     expected_results |-> query.expected_results,
     actual_results |-> rs]
QueryOutcome(query, rs) ==
    [query |-> query.query,
     total_result_count |-> Len(query.expected_results),
     covered_result_count |-> CoveredCount(query.expected_results, rs),
     expected_results |-> query.expected_results,
     actual_results |-> rs]

\* The subscriber's closure, 394-400, on an event: the sender it is left with, and
\* whether it sent.
CallbackSendsOnAnyStatus(sender, event) ==
    IF sender = "some" THEN [tx |-> "taken", sent |-> TRUE]
    ELSE [tx |-> sender, sent |-> FALSE]
CallbackSendsOnEveryIdle(sender, event) ==
    IF event = "Idle" THEN [tx |-> "taken", sent |-> TRUE]
    ELSE [tx |-> sender, sent |-> FALSE]
CallbackTakesWithoutSending(sender, event) ==
    IF event = "Idle" THEN [tx |-> "taken", sent |-> FALSE]
    ELSE [tx |-> sender, sent |-> FALSE]
Callback(sender, event) ==
    IF event = "Idle"
    THEN IF sender = "some" THEN [tx |-> "taken", sent |-> TRUE]
         ELSE [tx |-> sender, sent |-> FALSE]
    ELSE [tx |-> sender, sent |-> FALSE]

Call(op) == [op |-> op, project |-> proj_ix, query |-> query_ix]

EvalInit ==
    /\ evaluations_r \in EvalDatasets
    /\ repos \in {d \in [Dirs -> CacheStates] : d[<<"noslash">>] = AbsentDir}
    /\ proj_ix = 1
    /\ query_ix = 1
    /\ eval_pc = "next_project"
    /\ covered_result_count = 0
    /\ total_result_count = 0
    /\ outcomes = <<>>
    /\ calls = <<>>
    /\ index_handle = FALSE
    /\ subscribed = FALSE
    /\ tx = "none"
    /\ rx = "none"
    /\ n_sends = 0
    /\ n_events = 0
    /\ n_idle = 0
    /\ search_pending = 0

EvalIdle ==
    /\ evaluations_r = <<>>
    /\ repos = [d \in Dirs |-> AbsentDir]
    /\ proj_ix = 1
    /\ query_ix = 1
    /\ eval_pc = "next_project"
    /\ covered_result_count = 0
    /\ total_result_count = 0
    /\ outcomes = <<>>
    /\ calls = <<>>
    /\ index_handle = FALSE
    /\ subscribed = FALSE
    /\ tx = "none"
    /\ rx = "none"
    /\ n_sends = 0
    /\ n_events = 0
    /\ n_idle = 0
    /\ search_pending = 0

\* The project is skipped, 296-300.
SkipProject ==
    /\ eval_pc = "next_project"
    /\ proj_ix <= Len(evaluations_r)
    /\ EvalSkips(repos, evaluations_r[proj_ix].repo)
    /\ proj_ix' = proj_ix + 1
    /\ UNCHANGED <<evaluations_r, repos, query_ix, eval_pc, covered_result_count,
                   total_result_count, outcomes, calls, index_handle, subscribed, tx, rx,
                   n_sends, n_events, n_idle, search_pending>>
    /\ EvalFrame

\* Project::local and find_or_create_worktree, awaited, 302-320.
RegisterWorktree ==
    /\ eval_pc = "next_project"
    /\ proj_ix <= Len(evaluations_r)
    /\ ~EvalSkips(repos, evaluations_r[proj_ix].repo)
    /\ calls' = Append(calls, Call("find_or_create_worktree"))
    /\ query_ix' = 1
    /\ eval_pc' = "worktree"
    /\ UNCHANGED <<evaluations_r, repos, proj_ix, covered_result_count, total_result_count,
                   outcomes, index_handle, subscribed, tx, rx, n_sends, n_events,
                   n_idle, search_pending>>
    /\ EvalFrame

\* The worktree is there: scan_complete(), awaited, 322-327.
WorktreeCreated ==
    /\ eval_pc = "worktree"
    /\ calls' = Append(calls, Call("scan_complete"))
    /\ eval_pc' = "scanning"
    /\ UNCHANGED <<evaluations_r, repos, proj_ix, query_ix, covered_result_count,
                   total_result_count, outcomes, index_handle, subscribed, tx, rx, n_sends,
                   n_events, n_idle, search_pending>>
    /\ EvalFrame

\* find_or_create_worktree answers Err: the ? of 319-320 ends the run with it.
WorktreeFails ==
    /\ eval_pc = "worktree"
    /\ eval_pc' = "failed"
    /\ UNCHANGED <<evaluations_r, repos, proj_ix, query_ix, covered_result_count,
                   total_result_count, outcomes, calls, index_handle, subscribed, tx, rx,
                   n_sends, n_events, n_idle, search_pending>>
    /\ EvalFrame

\* The scan is complete: semantic_index.project_index(..) returns the index handle,
\* 329-331.
ProjectIndex ==
    /\ eval_pc = "scanning"
    /\ calls' = Append(calls, Call("project_index"))
    /\ index_handle' = TRUE
    /\ n_events' = 0
    /\ n_idle' = 0
    /\ eval_pc' = "index"
    /\ UNCHANGED <<evaluations_r, repos, proj_ix, query_ix, covered_result_count,
                   total_result_count, outcomes, subscribed, tx, rx, n_sends,
                   search_pending>>
    /\ EvalFrame

\* wait_for_indexing_complete up to its await: the channel and the subscription,
\* 391-402.
Subscribe ==
    /\ eval_pc = "index"
    /\ calls' = Append(calls, Call("subscribe"))
    /\ tx' = "some"
    /\ rx' = "empty"
    /\ n_sends' = 0
    /\ subscribed' = TRUE
    /\ eval_pc' = "waiting"
    /\ UNCHANGED <<evaluations_r, repos, proj_ix, query_ix, covered_result_count,
                   total_result_count, outcomes, index_handle, n_events, n_idle,
                   search_pending>>
    /\ EvalFrame

\* The engine emits a status event of the project's index while the run is at an
\* await; a subscriber's closure runs on it, 394-400.
EngineEmits ==
    /\ index_handle
    /\ RunnerSuspended(eval_pc)
    /\ n_events < MaxEvents
    /\ \E event \in Statuses :
        /\ n_idle' = IF event = "Idle" THEN n_idle + 1 ELSE n_idle
        /\ IF subscribed
           THEN LET c == Callback(tx, event) IN
                /\ tx' = c.tx
                /\ rx' = IF c.sent THEN "ready" ELSE rx
                /\ n_sends' = IF c.sent THEN n_sends + 1 ELSE n_sends
           ELSE UNCHANGED <<tx, rx, n_sends>>
    /\ n_events' = n_events + 1
    /\ UNCHANGED <<evaluations_r, repos, proj_ix, query_ix, eval_pc, covered_result_count,
                   total_result_count, outcomes, calls, index_handle, subscribed,
                   search_pending>>
    /\ EvalFrame

\* rx.await answers, and the subscription is dropped, 402-403.
WaitReturns ==
    /\ eval_pc = "waiting"
    /\ rx = "ready"
    /\ subscribed' = FALSE
    /\ calls' = Append(calls, Call("drop_subscription"))
    /\ eval_pc' = "query_top"
    /\ UNCHANGED <<evaluations_r, repos, proj_ix, query_ix, covered_result_count,
                   total_result_count, outcomes, index_handle, tx, rx, n_sends, n_events,
                   n_idle, search_pending>>
    /\ EvalFrame

\* The next query: project_index.search(query, SEARCH_RESULT_LIMIT), awaited, 335-343.
IssueSearch ==
    /\ eval_pc = "query_top"
    /\ query_ix <= Len(evaluations_r[proj_ix].queries)
    /\ calls' = Append(calls, Call("search"))
    /\ search_pending' = search_pending + 1
    /\ eval_pc' = "searching"
    /\ UNCHANGED <<evaluations_r, repos, proj_ix, query_ix, covered_result_count,
                   total_result_count, outcomes, index_handle, subscribed, tx, rx, n_sends,
                   n_events, n_idle>>
    /\ EvalFrame

\* The search answers: SemanticIndex::load_results, awaited, 345-347.
SearchReturns ==
    /\ eval_pc = "searching"
    /\ search_pending' = search_pending - 1
    /\ eval_pc' = "loading"
    /\ UNCHANGED <<evaluations_r, repos, proj_ix, query_ix, covered_result_count,
                   total_result_count, outcomes, calls, index_handle, subscribed, tx, rx,
                   n_sends, n_events, n_idle>>
    /\ EvalFrame

\* The search or load_results answers Err: the unwrap of 343 or 347 panics.
SearchFails ==
    /\ eval_pc \in {"searching", "loading"}
    /\ eval_pc' = "panicked"
    /\ UNCHANGED <<evaluations_r, repos, proj_ix, query_ix, covered_result_count,
                   total_result_count, outcomes, calls, index_handle, subscribed, tx, rx,
                   n_sends, n_events, n_idle, search_pending>>
    /\ EvalFrame

\* The results are loaded: the query is scored, its outcome is added to the totals and
\* printed, 349-378.
PrintOutcome ==
    /\ eval_pc = "loading"
    /\ \E rs \in SearchAnswers :
        LET query_results_ == QueryOutcome(evaluations_r[proj_ix].queries[query_ix], rs) IN
        /\ covered_result_count' = covered_result_count + query_results_.covered_result_count
        /\ total_result_count' = total_result_count + query_results_.total_result_count
        /\ outcomes' = Append(outcomes, query_results_)
    /\ calls' = Append(calls, Call("println"))
    /\ query_ix' = query_ix + 1
    /\ eval_pc' = "query_top"
    /\ UNCHANGED <<evaluations_r, repos, proj_ix, index_handle, subscribed, tx, rx, n_sends,
                   n_events, n_idle, search_pending>>
    /\ EvalFrame

\* The project's queries are done: the iteration ends and its handles are dropped, 379-380.
ProjectDoneAfterFirstQuery ==
    /\ eval_pc = "query_top"
    /\ query_ix > 1
    /\ proj_ix' = proj_ix + 1
    /\ index_handle' = FALSE
    /\ eval_pc' = "next_project"
    /\ UNCHANGED <<evaluations_r, repos, query_ix, covered_result_count, total_result_count,
                   outcomes, calls, subscribed, tx, rx, n_sends, n_events, n_idle,
                   search_pending>>
    /\ EvalFrame
ProjectDone ==
    /\ eval_pc = "query_top"
    /\ query_ix > Len(evaluations_r[proj_ix].queries)
    /\ proj_ix' = proj_ix + 1
    /\ index_handle' = FALSE
    /\ eval_pc' = "next_project"
    /\ UNCHANGED <<evaluations_r, repos, query_ix, covered_result_count, total_result_count,
                   outcomes, calls, subscribed, tx, rx, n_sends, n_events, n_idle,
                   search_pending>>
    /\ EvalFrame

\* The list is done, 382-387.
FinishRun ==
    /\ eval_pc = "next_project"
    /\ proj_ix > Len(evaluations_r)
    /\ eval_pc' = "done"
    /\ UNCHANGED <<evaluations_r, repos, proj_ix, query_ix, covered_result_count,
                   total_result_count, outcomes, calls, index_handle, subscribed, tx, rx,
                   n_sends, n_events, n_idle, search_pending>>
    /\ EvalFrame

\* The steps of the run itself.
RunnerNext ==
    \/ SkipProject
    \/ RegisterWorktree
    \/ WorktreeCreated
    \/ ProjectIndex
    \/ Subscribe
    \/ WaitReturns
    \/ IssueSearch
    \/ SearchReturns
    \/ PrintOutcome
    \/ ProjectDone
    \/ FinishRun

EvalNext ==
    \/ SkipProject
    \/ RegisterWorktree
    \/ WorktreeCreated
    \/ WorktreeFails
    \/ ProjectIndex
    \/ Subscribe
    \/ EngineEmits
    \/ WaitReturns
    \/ IssueSearch
    \/ SearchReturns
    \/ SearchFails
    \/ PrintOutcome
    \/ ProjectDone
    \/ FinishRun

(***************************************************************************)
(* Specifications.                                                         *)
(***************************************************************************)
InitScore == ScoreInit /\ BuildIdle /\ SyncIdle /\ FetchIdle /\ EvalIdle
InitBuild == ScoreIdle /\ BuildInit /\ SyncIdle /\ FetchIdle /\ EvalIdle
InitSync == ScoreIdle /\ BuildIdle /\ SyncInit /\ FetchIdle /\ EvalIdle
InitFetch == ScoreIdle /\ BuildIdle /\ SyncIdle /\ FetchInit /\ EvalIdle
InitEval == ScoreIdle /\ BuildIdle /\ SyncIdle /\ FetchIdle /\ EvalInit

SpecScore == InitScore /\ [][ScoreNext]_vars
SpecBuild == InitBuild /\ [][BuildNext]_vars
SpecSync == InitSync /\ [][SyncNext]_vars
SpecFetch == InitFetch /\ [][FetchNext]_vars
SpecEval == InitEval /\ [][EvalNext]_vars

\* The run's task is polled again whenever it can go on: the executor is fair to it.
\* Nothing makes the engine emit an event, nor an awaited call fail.
SpecEvalFair == SpecEval /\ WF_vars(RunnerNext)

(***************************************************************************)
(* Properties of the coverage scoring, under SpecScore.                    *)
(***************************************************************************)
\* The expected results of an outcome that some actual result covers: same file
\* path, and both expected.start and expected.end are values of the actual range
\* (actual.start <= v < actual.end).
CoveredSet(o) ==
    {i \in 1..Len(o.expected_results) :
        \E j \in 1..Len(o.actual_results) :
            LET e == o.expected_results[i]
                a == o.actual_results[j]
            IN /\ a.file = e.file
               /\ a.lines.start <= e.lines.start /\ e.lines.start < a.lines.end
               /\ a.lines.start <= e.lines.end /\ e.lines.end < a.lines.end}

\* C1: the emitted covered_result_count is the number of expected results for which
\* some actual result has the same file path and a line range containing both
\* expected.start and expected.end as values; an actual [5,20) alone covers an
\* expected [8,12) of its file, and covers neither [3,9) nor [21,25) nor anything
\* of another file.
C1_CoveredCountCountsContainedEndpoints ==
    query_results.emitted =>
        /\ query_results.covered_result_count = Cardinality(CoveredSet(query_results))
        /\ \A f \in Files :
            (/\ query_results.actual_results = <<[file |-> f, lines |-> Rng(5, 20)]>>
             /\ Len(query_results.expected_results) = 1
             /\ query_results.expected_results[1].lines \in {Rng(8, 12), Rng(3, 9), Rng(21, 25)})
            => query_results.covered_result_count =
                  IF query_results.expected_results[1] = [file |-> f, lines |-> Rng(8, 12)]
                  THEN 1 ELSE 0

\* C1's case: actual [5,20) in src/x.go, expected [8,12) and [3,9) in src/x.go: one covered.
C1_Witness ==
    /\ query_results.emitted
    /\ query_results.actual_results = <<[file |-> "src/x.go", lines |-> Rng(5, 20)]>>
    /\ query_results.expected_results =
          <<[file |-> "src/x.go", lines |-> Rng(8, 12)], [file |-> "src/x.go", lines |-> Rng(3, 9)]>>
    /\ query_results.covered_result_count = 1

\* The expected results of an outcome whose half-open range some actual result of the
\* same file fully contains: actual.start <= expected.start and expected.end <= actual.end.
FullyContainedSet(o) ==
    {i \in 1..Len(o.expected_results) :
        \E j \in 1..Len(o.actual_results) :
            LET e == o.expected_results[i]
                a == o.actual_results[j]
            IN /\ a.file = e.file
               /\ a.lines.start <= e.lines.start
               /\ e.lines.end <= a.lines.end}

\* C2: every expected result whose half-open line range some actual result at the same
\* path fully contains (actual.start <= expected.start, expected.end <= actual.end,
\* the identical range and a shared end included) is counted as covered.
C2_FullyContainedIsCounted ==
    query_results.emitted =>
        query_results.covered_result_count >= Cardinality(FullyContainedSet(query_results))

(***************************************************************************)
(* Properties of the dataset builder, under SpecBuild.                     *)
(***************************************************************************)
NoDuplicates(seq) == \A i, j \in 1..Len(seq) : i # j => seq[i] # seq[j]

QueryTexts(project) == [i \in 1..Len(project.queries) |-> project.queries[i].query]

Deduplicated(projects) ==
    /\ NoDuplicates([i \in 1..Len(projects) |-> <<projects[i].repo, projects[i].sha>>])
    /\ \A i \in 1..Len(projects) :
        /\ NoDuplicates(QueryTexts(projects[i]))
        /\ \A q \in 1..Len(projects[i].queries) :
              NoDuplicates(projects[i].queries[q].expected_results)

\* The projects of a map, in some order.
RECURSIVE ValuesOf(_)
ValuesOf(m) ==
    IF DOMAIN m = {} THEN <<>>
    ELSE LET k == CHOOSE x \in DOMAIN m : TRUE
         IN <<m[k]>> \o ValuesOf([x \in DOMAIN m \ {k} |-> m[x]])

\* C3: after every prefix of the rows the dataset holds at most one project per
\* (repo, sha), no two queries of a project with the same text, and no two equal
\* (file, line range) entries in one query's expected_results; so does the written list.
C3_DatasetIsDeduplicated ==
    /\ Deduplicated(ValuesOf(evaluations_by_repo))
    /\ Deduplicated(evaluations)

\* C3's case: three lines were read, two of them the same row, and the list was written.
C3_Witness ==
    /\ build_pc = "written"
    /\ n_rows = 3
    /\ \E r \in Rows : pending_b[r] = 2
    /\ Len(evaluations) = 2

KeysOf(projects) == [i \in 1..Len(projects) |-> <<projects[i].repo, projects[i].sha>>]

\* C4 as claimed: the written list of projects is in the order in which the (repo, sha)
\* keys first occur in the rows.
C4_ProjectsInFirstOccurrenceOrder ==
    build_pc = "written" => KeysOf(evaluations) = first_seen

\* C4 as amended: the written list of projects holds each (repo, sha) key of the rows
\* once, in ascending order of (repo, sha) (repo first, then sha, as strings),
\* whatever the order in which the keys first occur.
C4_ProjectsInKeyOrder ==
    build_pc = "written" =>
        /\ {KeysOf(evaluations)[i] : i \in 1..Len(evaluations)} =
              {first_seen[i] : i \in 1..Len(first_seen)}
        /\ \A i, j \in 1..Len(evaluations) :
              i < j =>
                \/ StrLt(evaluations[i].repo, evaluations[j].repo)
                \/ /\ evaluations[i].repo = evaluations[j].repo
                   /\ StrLt(evaluations[i].sha, evaluations[j].sha)

\* C4's case: three keys first occurred in an order that is not the key order.
C4_Witness ==
    /\ build_pc = "written"
    /\ first_seen = <<(<<"b/y", "s1">>), (<<"a/x", "s2">>), (<<"a/x", "s1">>)>>
    /\ KeysOf(evaluations) = <<(<<"a/x", "s1">>), (<<"a/x", "s2">>), (<<"b/y", "s1">>)>>

\* A dataset without its encounter orders: per (repo, sha), the set of its queries,
\* each with the set of its expected results.
SetView(m) ==
    [k \in DOMAIN m |->
        {<<m[k].queries[i].query,
           {m[k].queries[i].expected_results[j] :
               j \in 1..Len(m[k].queries[i].expected_results)}>> :
            i \in 1..Len(m[k].queries)}]

AllConsumed == \A r \in Rows : pending_b[r] = 0

\* C5: two executions fed the same multiset of rows in any two orders build the same
\* set of (repo, sha) projects, the same query texts per project and, per query, the
\* same set of expected results.
C5_BuildIgnoresRowOrder ==
    AllConsumed =>
        /\ DOMAIN evaluations_by_repo = DOMAIN evaluations_by_repo_b
        /\ SetView(evaluations_by_repo) = SetView(evaluations_by_repo_b)

\* C5's case: three rows consumed in two orders that built different datasets
\* (different encounter orders) with the same sets.
C5_Witness ==
    /\ AllConsumed
    /\ n_rows = 3
    /\ evaluations_by_repo # evaluations_by_repo_b

\* This step reads a line of annotations.csv.
LineStep == n_rows' = n_rows + 1

\* C15: a line whose score field is the literal "0" creates no project, no query and
\* no expected result: reading it leaves the dataset as it is, whatever the rest of
\* the line holds, so no result of the written dataset comes from such a line.
C15_ZeroScoreRowsAreDropped ==
    [][(LineStep /\ last_score' = "0")
        => /\ evaluations_by_repo' = evaluations_by_repo
           /\ first_seen' = first_seen]_vars

\* C15's case: a line with score "0" for a result the dataset does not hold was read
\* after a line that was kept, and the list was written with one project of one result.
C15_Witness ==
    /\ build_pc = "written"
    /\ last_score = "0"
    /\ n_rows = 2
    /\ Len(evaluations) = 1
    /\ Len(evaluations[1].queries) = 1
    /\ evaluations[1].queries[1].query = "read file"

(***************************************************************************)
(* Properties of fetch_eval_repo, under SpecSync.                          *)
(***************************************************************************)
\* This step is a call of fetch_eval_repo for a project with a repository directory.
FetchStep ==
    /\ n_calls' = n_calls + 1
    /\ last_call'.kind = "fetch"
    /\ SplitOnce(last_call'.project.repo) # None

EvalStep ==
    /\ n_calls' = n_calls + 1
    /\ last_call'.kind = "eval"

\* The directory of the project the step's call is for, before and after the call.
DirBefore == disk[PathComponents(last_call'.project.repo)]
DirAfter == disk'[PathComponents(last_call'.project.repo)]

Issued(call, cmd) == \E i \in 1..Len(call.cmds) : call.cmds[i][1] = cmd

\* C6: a call for a repository whose .git/HEAD content already equals the target sha
\* and which has no skip marker makes no request, runs no git command (init, remote
\* add, fetch, checkout) and leaves the disk as it is.
C6_SyncedRepoIsLeftAlone ==
    [][(FetchStep /\ ~DirBefore.skip /\ DirBefore.head = last_call'.project.sha)
        => /\ last_call'.probe = "none"
           /\ last_call'.cmds = <<>>
           /\ disk' = disk]_vars

\* C6's case: a call found the revision it was to check out already checked out.
C6_Witness ==
    /\ last_call.kind = "fetch"
    /\ last_call.result = "already"
    /\ last_call.previous = "synced"
    /\ disk[PathComponents(last_call.project.repo)].head = last_call.project.sha

\* C7: a probe answered with a status that is neither success nor redirect writes the
\* skip marker and runs no git command; a later fetch call for a repository with the
\* marker makes no request and runs no git command; an evaluation run skips a project
\* whose repository has the marker (no outcomes); and no step removes a marker.
C7_GoneRepoIsSkippedForGood ==
    /\ [][(FetchStep /\ last_call'.probe \notin {"none", "success", "redirection", "request_failed"})
            => /\ DirAfter.skip
               /\ last_call'.cmds = <<>>]_vars
    /\ [][(FetchStep /\ DirBefore.skip)
            => /\ last_call'.probe = "none"
               /\ last_call'.cmds = <<>>]_vars
    /\ [][(EvalStep /\ DirBefore.skip) => last_call'.result = "skipped"]_vars
    /\ [][\A d \in Dirs : disk[d].skip => disk'[d].skip]_vars

\* C7's case: the probe found the repository gone, a later fetch call skipped it, and
\* an evaluation run then skipped the project.
C7_Witness ==
    /\ last_call.kind = "eval"
    /\ last_call.result = "skipped"
    /\ last_outcome[last_call.project] = "skipped"
    /\ disk[PathComponents(last_call.project.repo)].skip

SyncFailures == {"fetch_failed", "checkout_failed"}

\* A failed fetch or checkout writes no skip marker and leaves .git/HEAD different
\* from the target sha.
FailureLeavesRepoUnsynchronized ==
    [][(FetchStep /\ last_call'.result \in SyncFailures)
        => /\ DirAfter.skip = DirBefore.skip
           /\ DirAfter.head # last_call'.project.sha]_vars

\* C8 as claimed: a failed fetch or checkout writes no skip marker and leaves the
\* revision marker different from the target sha, and the next call for the same
\* (repo, sha) probes again.
C8_FailedSyncIsRetried ==
    /\ FailureLeavesRepoUnsynchronized
    /\ [][(FetchStep /\ last_outcome[last_call'.project] \in SyncFailures)
            => last_call'.probe # "none"]_vars

\* C8 as amended: a failed fetch or checkout writes no skip marker and leaves the
\* revision marker different from the target sha; the next call for the same
\* (repo, sha) probes again unless the repository's skip marker has been written in
\* between (by a probe for another revision of the same repository); when that probe
\* succeeds it runs git fetch again unless starting git panics, and git checkout once
\* the fetch succeeds.
C8_FailedSyncIsRetriedUnlessMarked ==
    /\ FailureLeavesRepoUnsynchronized
    /\ [][(FetchStep /\ last_outcome[last_call'.project] \in SyncFailures /\ ~DirBefore.skip)
            => /\ last_call'.probe # "none"
               /\ (last_call'.probe \in {"success", "redirection"} /\ last_call'.result # "panic")
                     => Issued(last_call', "fetch")
               /\ (\E i \in 1..Len(last_call'.cmds) : last_call'.cmds[i] = <<"fetch", "ok">>)
                     => Issued(last_call', "checkout")]_vars

\* C8's case: a call whose project's previous call had failed in fetch or checkout
\* probed, fetched and checked out.
C8_Witness ==
    /\ last_call.kind = "fetch"
    /\ last_call.previous \in SyncFailures
    /\ last_call.result = "synced"

\* C13: a project whose last fetch call failed in git fetch or git checkout, and whose
\* directory holds no checkout of its sha, is skipped by the evaluation run (no search,
\* no outcomes).
C13_UnsynchronizedProjectIsSkipped ==
    [][(/\ EvalStep
        /\ last_outcome[last_call'.project] \in SyncFailures
        /\ DirBefore.head # last_call'.project.sha)
        => last_call'.result = "skipped"]_vars

(***************************************************************************)
(* Properties of the fetch phase, under SpecFetch.                         *)
(***************************************************************************)
\* C9: a failure on one repository (the probe request failing, git init, fetch or
\* checkout failing) never aborts the batch: the worker that hit it is not stopped by
\* it, and neither are the other workers.
C9_FailureNeverStopsAWorker ==
    /\ fetch_pc # "aborted"
    /\ \A w \in 1..Len(workers) : workers[w].st # "panicked"

\* C10: whatever the number of projects, the list is split into a fixed number of
\* chunks with one worker each: at most 8 workers exist.
C10_AtMostEightWorkers ==
    /\ Len(workers) <= 8
    /\ fetch_pc \in {"running", "done"} => Len(workers) = 8

\* The project a worker is on.
WorkerProject(w) == evaluations_f[workers[w].next]

\* C11: no two workers that are inside fetch_eval_repo at the same time are on the same
\* repository directory (the directory of owner/name), also when the project list
\* holds one repository at two revisions.
C11_NoTwoWorkersShareADirectory ==
    \A w1, w2 \in 1..Len(workers) :
        (/\ w1 # w2
         /\ workers[w1].st = "fetching"
         /\ workers[w2].st = "fetching")
        => WorkerProject(w1).repo # WorkerProject(w2).repo

\* C16: for every length of the project list, the empty list and lists of fewer than
\* 8 projects included, the fetch phase ends normally, with every project handed to
\* fetch_eval_repo exactly once and the completed counter equal to the number of
\* projects.
C16_EveryProjectFetchedOnce ==
    /\ fetch_pc \notin {"panicked", "aborted"}
    /\ done_count <= Len(evaluations_f)
    /\ fetch_pc = "done" =>
          /\ \A i \in 1..Len(evaluations_f) : handed[i] = 1
          /\ done_count = Len(evaluations_f)

(***************************************************************************)
(* Properties of the evaluation run, under SpecEval.                       *)
(***************************************************************************)
\* The repository directory of project i of the list, as the run finds it.
ProjectDir(i) == repos[PathComponents(evaluations_r[i].repo)]

\* The project's directory is absent or holds the skip marker.
AbsentOrMarked(i) == ~ProjectDir(i).exists \/ ProjectDir(i).skip

\* C12: a project whose directory is absent or holds the skip marker is skipped: the
\* step that deals with it makes no call (worktree registration, indexing, search),
\* prints no outcome, leaves the totals as they are and moves to the next project;
\* no call of the run is ever made for such a project.
C12_SkippedProjectLeavesNoTrace ==
    /\ [][(/\ eval_pc = "next_project"
           /\ proj_ix <= Len(evaluations_r)
           /\ AbsentOrMarked(proj_ix))
          => /\ proj_ix' = proj_ix + 1
             /\ eval_pc' = "next_project"
             /\ calls' = calls
             /\ outcomes' = outcomes
             /\ covered_result_count' = covered_result_count
             /\ total_result_count' = total_result_count]_vars
    /\ [](\A k \in 1..Len(calls) : ~AbsentOrMarked(calls[k].project))

\* C12's case: the first project's directory holds the skip marker, the second's is
\* absent, the run is done and nothing was called or printed.
C12_Witness ==
    /\ eval_pc = "done"
    /\ Len(evaluations_r) = 2
    /\ ProjectDir(1).skip
    /\ ~ProjectDir(2).exists
    /\ calls = <<>>
    /\ outcomes = <<>>

\* The (project, query) positions the run has printed an outcome at, in order.
RECURSIVE PrintedAt(_)
PrintedAt(cs) ==
    IF cs = <<>> THEN <<>>
    ELSE IF Head(cs).op = "println"
         THEN <<(<<Head(cs).project, Head(cs).query>>)>> \o PrintedAt(Tail(cs))
         ELSE PrintedAt(Tail(cs))

\* Every query of every project from i on that is not skipped, project by project and
\* query by query.
RECURSIVE ProjectThenQueryOrder(_)
ProjectThenQueryOrder(i) ==
    IF i > Len(evaluations_r) THEN <<>>
    ELSE (IF AbsentOrMarked(i) THEN <<>>
          ELSE [q \in 1..Len(evaluations_r[i].queries) |-> <<i, q>>])
         \o ProjectThenQueryOrder(i + 1)

\* C14: the printed outcomes are, at every moment, the first outcomes of the
\* project-then-query order (one per query of each project that is not skipped, each
\* for its query), a finished run has printed all of them, and a step only appends.
C14_OutcomesInProjectThenQueryOrder ==
    /\ [](LET at == PrintedAt(calls)
              all == ProjectThenQueryOrder(1)
          IN /\ Len(at) = Len(outcomes)
             /\ Len(at) <= Len(all)
             /\ at = SubSeq(all, 1, Len(at))
             /\ \A k \in 1..Len(at) :
                   outcomes[k].query = evaluations_r[at[k][1]].queries[at[k][2]].query
             /\ eval_pc = "done" => at = all)
    /\ [][/\ Len(outcomes') >= Len(outcomes)
          /\ SubSeq(outcomes', 1, Len(outcomes)) = outcomes]_vars

\* C14's case: a finished run over two projects that printed three outcomes.
C14_Witness ==
    /\ eval_pc = "done"
    /\ PrintedAt(calls) = <<(<<1, 1>>), (<<1, 2>>), (<<2, 1>>)>>
    /\ Len(outcomes) = 3

\* The projects a worktree was registered for and whose iteration has not ended.
OpenProjects ==
    {i \in 1..Len(evaluations_r) :
        /\ i >= proj_ix
        /\ \E k \in 1..Len(calls) : calls[k].project = i /\ calls[k].op = "find_or_create_worktree"}

CalledBefore(k, op) ==
    \E j \in 1..(k - 1) : calls[j].project = calls[k].project /\ calls[j].op = op

\* C17: at most one project is between its worktree registration and its last query,
\* the calls of one project are not mixed with another's, at most one search is
\* outstanding, and a search of a project comes after its scan was complete and
\* after the engine's Idle notification for its index was observed.
C17_EvaluationIsSequential ==
    /\ Cardinality(OpenProjects) <= 1
    /\ \A j, k \in 1..Len(calls) : j < k => calls[j].project <= calls[k].project
    /\ search_pending <= 1
    /\ \A k \in 1..Len(calls) :
          calls[k].op = "search" =>
             /\ CalledBefore(k, "scan_complete")
             /\ CalledBefore(k, "project_index")
             /\ CalledBefore(k, "drop_subscription")
    /\ eval_pc \in {"query_top", "searching", "loading"} => n_idle > 0

\* C17's case: a search of the second project is outstanding after the first was done.
C17_Witness ==
    /\ eval_pc = "searching"
    /\ proj_ix = 2
    /\ search_pending = 1
    /\ Len(outcomes) >= 1
    /\ n_idle = 1
    /\ n_events = 3

\* C18: the run leaves the wait only when an Idle notification has fulfilled the
\* channel, and the subscription is dropped as it leaves; a notification that is not
\* Idle leaves it waiting; the sender is used at most once however many Idle
\* notifications arrive; past the wait there is no subscription.
C18_IndexingWaitIsSingleShot ==
    /\ [][(eval_pc = "waiting" /\ eval_pc' # "waiting")
            => /\ n_idle > 0
               /\ rx = "ready"
               /\ ~subscribed']_vars
    /\ [][(eval_pc = "waiting" /\ n_events' = n_events + 1 /\ n_idle' = 0)
            => /\ eval_pc' = "waiting"
               /\ rx' = "empty"
               /\ tx' = "some"]_vars
    /\ [](n_sends <= 1)
    /\ [](eval_pc \in {"query_top", "searching", "loading"} => ~subscribed /\ n_sends = 1)

\* C18's case: a notification that was not Idle and two Idle notifications arrived during
\* the wait; the sender was used once and the run has left the wait.
C18_Witness ==
    /\ eval_pc = "query_top"
    /\ query_ix = 1
    /\ n_events = 3
    /\ n_idle = 2
    /\ n_sends = 1
    /\ ~subscribed

RECURSIVE SumOf(_, _)
SumOf(os, field) ==
    IF os = <<>> THEN 0 ELSE Head(os)[field] + SumOf(Tail(os), field)

\* C20: the running totals are the sums of covered_result_count and of
\* total_result_count over the outcomes printed so far; an outcome's total is the
\* number of its expected results and its covered count is at most that; so the
\* covered total is at most the total, and no step decreases either.
C20_TotalsAreSumsOfOutcomes ==
    /\ [](/\ covered_result_count = SumOf(outcomes, "covered_result_count")
          /\ total_result_count = SumOf(outcomes, "total_result_count")
          /\ \A k \in 1..Len(outcomes) :
                /\ outcomes[k].total_result_count = Len(outcomes[k].expected_results)
                /\ outcomes[k].covered_result_count <= outcomes[k].total_result_count
          /\ covered_result_count <= total_result_count)
    /\ [][/\ covered_result_count' >= covered_result_count
          /\ total_result_count' >= total_result_count]_vars

\* C20's case: three outcomes were printed, two of the four expected results covered.
C20_Witness ==
    /\ Len(outcomes) = 3
    /\ total_result_count = 4
    /\ covered_result_count = 2
    /\ \E k \in 1..3 : outcomes[k].covered_result_count = 0 /\ outcomes[k].actual_results # <<>>

====
